---- MODULE Spec2Model ----
(***************************************************************************)
(* Contact Form API (src/main.py): one FastAPI application served by one   *)
(* uvicorn event loop.  POST /contact is an "async def" handler decorated  *)
(* with a slowapi limit of "1/hour" keyed by the remote address; its body  *)
(* is a pydantic ContactForm; it sends one transactional e-mail through    *)
(* the Brevo SDK with a synchronous call.                                  *)
(*                                                                         *)
(* Order of the steps of one POST /contact request, as FastAPI and slowapi *)
(* run them for the decorators of lines 131-133:                           *)
(*   1. FastAPI builds the arguments of the endpoint: the body is parsed   *)
(*      and validated as ContactForm; a failure answers 422 and the        *)
(*      endpoint function is never called;                                 *)
(*   2. the endpoint function is the wrapper made by @limiter.limit: it    *)
(*      hits the limit of the remote address (no SlowAPIMiddleware is      *)
(*      installed, so this is the only place the limit is checked);        *)
(*   3. the wrapper awaits contact(), which calls send_email_via_brevo()   *)
(*      without awaiting anything: the event loop thread stays inside the  *)
(*      handler until the provider has answered.                           *)
(*                                                                         *)
(* The limiter is the default one of Limiter(key_func=...): in-memory      *)
(* storage, fixed-window strategy.  A hit first forgets the key if its     *)
(* window has ended (expirations[key] <= now), then adds one to the count  *)
(* of the key; the hit that brings the count to 1 sets the end of the      *)
(* window to now + 3600; the hit is within the limit when the count does   *)
(* not exceed 1.  A denied hit is counted too and leaves the end alone.    *)
(*                                                                         *)
(* ContactForm.email is an EmailStr: the value the handler sees is the     *)
(* normalised address (domain in lower case), not the submitted string.    *)
(***************************************************************************)
EXTENDS Integers, Sequences, FiniteSets, TLC

\* ------------------------------------------------------------------ bounds
MaxRequests == 3
MaxForms == 1

\* ------------------------------------------------------- program constants
Hour == 3600
Limit == 1
MinLength == 1
MaxName == 100
MaxSubject == 200
MaxMessage == 5000

\* ------------------------------------------------------------------ inputs
Addrs == {"10.0.0.1", "10.0.0.2"}

\* the readings of the clock: the start, the last second of the hour that
\* starts there, and the end of that hour
Instants == {0, Hour - 1, Hour}

\* A raw e-mail string, as the sequence of its parts.
RawEmails ==
  { <<"john", "@", "example.com">>,
    <<"John", "@", "EXAMPLE.com">>,
    <<"john", "example.com">>,
    <<"@", "example.com">> }

\* name, subject and message are given by their length in characters
NameLengths == {0, MinLength, MaxName, MaxName + 1}
SubjectLengths == {0, MinLength, MaxSubject, MaxSubject + 1}
MessageLengths == {0, MinLength, MaxMessage, MaxMessage + 1}

AllBodies ==
  [name : NameLengths, email : RawEmails,
   subject : SubjectLengths, message : MessageLengths]

GoodBody == [name |-> 1, email |-> <<"john", "@", "example.com">>,
             subject |-> 1, message |-> 1]

EdgeBody == [name |-> MaxName, email |-> <<"John", "@", "EXAMPLE.com">>,
             subject |-> MaxSubject, message |-> MaxMessage]

BadBody == [GoodBody EXCEPT !.subject = MaxSubject + 1]

\* the POST /contact requests that clients send: one address sends a valid
\* and an invalid body, the other address sends the plain valid one
Posts ==
  [addr : {"10.0.0.1"}, body : {EdgeBody, BadBody}]
    \cup [addr : {"10.0.0.2"}, body : {GoodBody}]

NoBody == [name |-> 0, email |-> <<>>, subject |-> 0, message |-> 0]
NoData == [name |-> 0, email |-> <<>>, subject |-> 0]

VARIABLES
  now,          \* time.time() as the limiter storage reads it, in seconds
  api_key,      \* os.getenv("BREVO_API_KEY") is set
  reqs,         \* the requests received so far, in order of arrival
  running,      \* index of the request the event loop thread is inside, 0 if idle
  storage,      \* limiter storage: hits counted per key
  expirations,  \* limiter storage: end of the window per key
  sent          \* calls of send_transac_email seen by the provider, in order

vars == <<now, api_key, reqs, running, storage, expirations, sent>>

Ids == 1..Len(reqs)

\* ------------------------------------------------------ ContactForm fields
Lower(part) ==
  CASE part = "EXAMPLE.com" -> "example.com"
    [] OTHER -> part

AtSigns(e) == {i \in 1..Len(e) : e[i] = "@"}

\* EmailStr: exactly one "@" with a local part before and a domain after it
IsEmail(e) ==
  /\ Cardinality(AtSigns(e)) = 1
  /\ \A i \in AtSigns(e) : i > 1 /\ i < Len(e)

\* EmailStr keeps the normalised address: the domain is lower-cased, the
\* local part is kept as written
NormalizedEmail(e) ==
  [k \in 1..Len(e) |-> IF \E i \in AtSigns(e) : k > i THEN Lower(e[k]) ELSE e[k]]

LengthOkNoMax(n, max) == n >= MinLength

\* Field(min_length=1, max_length=max)
LengthOk(n, max) == n >= MinLength /\ n <= max

NoValidation(body) == {}

\* the fields of the body that ContactForm rejects
ValidationErrors(body) ==
  (IF LengthOk(body.name, MaxName) THEN {} ELSE {"name"})
    \cup (IF IsEmail(body.email) THEN {} ELSE {"email"})
    \cup (IF LengthOk(body.subject, MaxSubject) THEN {} ELSE {"subject"})
    \cup (IF LengthOk(body.message, MaxMessage) THEN {} ELSE {"message"})

\* the ContactForm instance built from a body that passes validation
ContactForm(body) ==
  [name |-> body.name, email |-> NormalizedEmail(body.email),
   subject |-> body.subject, message |-> body.message]

\* ------------------------------------------------------------ rate limiter
GlobalKey(request) == "10.0.0.1"

\* key_func of the limiter
get_remote_address(request) == request.addr

\* the storage forgets a key whose window has ended
Expired(key, t) == expirations[key] <= t

\* hits counted for the key in its current window
Count(key, t) == IF Expired(key, t) THEN 0 ELSE storage[key]

WithinLimitOffByOne(count) == count <= Limit + 1

\* "1/hour": a hit is within the limit when the count, this hit included,
\* does not exceed 1
WithinLimit(count) == count <= Limit

ElasticWindowEnd(key, count, t) == t + Hour

ZeroWindowEnd(key, count, t) == IF count = 1 THEN t ELSE expirations[key]

\* fixed window: the end of the window is set by the hit that opens it only
WindowEnd(key, count, t) == IF count = 1 THEN t + Hour ELSE expirations[key]

\* ---------------------------------------------------------------- requests
\* A request: what the client sent (path, addr, body), where its handling
\* stands (pc, form), what was answered (code, status, detail, errors, data)
\* and when the loop took it and the limiter admitted it (-1: not yet).
NewRequest(path, addr, body) ==
  [path |-> path, addr |-> addr, body |-> body, form |-> NoBody,
   pc |-> "Received", code |-> 0, status |-> "", detail |-> "",
   errors |-> {}, data |-> NoData, handled_at |-> -1, admitted_at |-> -1]

Init ==
  /\ now = 0
  /\ api_key \in BOOLEAN
  /\ reqs = <<>>
  /\ running = 0
  /\ storage = [a \in Addrs |-> 0]
  /\ expirations = [a \in Addrs |-> 0]
  /\ sent = <<>>

\* The clock advances.  RateCheck is the only step that reads the clock, so
\* an advance between Validate and RateCheck, or between RateCheck and the
\* call of the provider, is the same advance taken just before or just after
\* that run of the handler: the clock is advanced while the loop is idle or
\* waiting for the provider.
Tick ==
  /\ IF running = 0 THEN TRUE ELSE reqs[running].pc = "Dispatching"
  /\ \E t \in Instants : t > now /\ now' = t
  /\ UNCHANGED <<api_key, reqs, running, storage, expirations, sent>>

\* a client sends POST /contact
PostContact ==
  /\ Len(reqs) < MaxRequests
  /\ \E post \in Posts :
       reqs' = Append(reqs, NewRequest("/contact", post.addr, post.body))
  /\ UNCHANGED <<now, api_key, running, storage, expirations, sent>>

\* a client sends POST /contact with any body
PostAnyBody ==
  /\ Len(reqs) < MaxForms
  /\ \E body \in AllBodies :
       reqs' = Append(reqs, NewRequest("/contact", "10.0.0.1", body))
  /\ UNCHANGED <<now, api_key, running, storage, expirations, sent>>

\* a client sends GET / or GET /health
Get ==
  /\ Len(reqs) < MaxRequests
  /\ \E path \in {"/", "/health"} :
       reqs' = Append(reqs, NewRequest(path, "10.0.0.2", NoBody))
  /\ UNCHANGED <<now, api_key, running, storage, expirations, sent>>

\* The event loop thread is not inside a handler.  Every handler is an
\* "async def" that awaits nothing, so it runs on the event loop thread from
\* its first step to its response.
LoopIdle == running = 0

\* GET /
root(r) ==
  /\ LoopIdle
  /\ reqs[r].pc = "Received" /\ reqs[r].path = "/"
  /\ reqs' = [reqs EXCEPT ![r].pc = "Responded", ![r].code = 200,
                          ![r].detail = "Contact Form API is running"]
  /\ UNCHANGED <<now, api_key, running, storage, expirations, sent>>

\* GET /health
health_check(r) ==
  /\ LoopIdle
  /\ reqs[r].pc = "Received" /\ reqs[r].path = "/health"
  /\ reqs' = [reqs EXCEPT ![r].pc = "Responded", ![r].code = 200,
                          ![r].status = "healthy"]
  /\ UNCHANGED <<now, api_key, running, storage, expirations, sent>>

\* POST /contact, step 1: the body is validated as ContactForm
Validate(r) ==
  /\ LoopIdle
  /\ reqs[r].pc = "Received" /\ reqs[r].path = "/contact"
  /\ LET errs == ValidationErrors(reqs[r].body) IN
       IF errs # {}
       THEN /\ reqs' = [reqs EXCEPT ![r].pc = "Rejected", ![r].code = 422,
                                    ![r].detail = "validation error",
                                    ![r].errors = errs, ![r].handled_at = now]
            /\ UNCHANGED running
       ELSE /\ reqs' = [reqs EXCEPT ![r].pc = "Validated",
                                    ![r].form = ContactForm(reqs[r].body),
                                    ![r].handled_at = now]
            /\ running' = r
  /\ UNCHANGED <<now, api_key, storage, expirations, sent>>

\* POST /contact, step 2: the wrapper of @limiter.limit("1/hour") hits the limit
RateCheck(r) ==
  /\ running = r
  /\ reqs[r].pc = "Validated"
  /\ LET key == get_remote_address(reqs[r])
         count == Count(key, now) + 1
     IN /\ storage' = [storage EXCEPT ![key] = count]
        /\ expirations' = [expirations EXCEPT ![key] = WindowEnd(key, count, now)]
        /\ IF WithinLimit(count)
           THEN /\ reqs' = [reqs EXCEPT ![r].pc = "RateChecked",
                                        ![r].admitted_at = now]
                /\ UNCHANGED running
           ELSE /\ reqs' = [reqs EXCEPT ![r].pc = "Rejected", ![r].code = 429,
                                        ![r].detail = "Rate limit exceeded: 1 per 1 hour"]
                /\ running' = 0
  /\ UNCHANGED <<now, api_key, sent>>

\* ------------------------------------------------------------- dispatching
KeyNotChecked == TRUE

\* get_brevo_client() raises ValueError unless BREVO_API_KEY is set
HasApiKey == api_key

ReplyToSender(form) == <<"noreply", "@", "yourdomain.com">>

\* reply_to of the SendSmtpEmail built for a form
ReplyTo(form) == form.email

SendSmtpEmail(r, form) ==
  [request |-> r, reply_to |-> ReplyTo(form), name |-> form.name,
   subject |-> form.subject, message |-> form.message, outcome |-> "pending"]

\* "data" of the success response
Echo(form) == [name |-> form.name, email |-> form.email, subject |-> form.subject]

\* contact() returns the success response
Returned(req) ==
  [req EXCEPT !.pc = "Responded", !.code = 200, !.status = "success",
              !.detail = "Your message has been sent successfully!",
              !.data = Echo(req.form)]

Swallowed(req, detail) == Returned(req)

\* send_email_via_brevo() raises HTTPException(500) and contact() raises it again
Raised(req, detail) ==
  [req EXCEPT !.pc = "DispatchFailed", !.code = 500, !.detail = detail]

\* what the call of the provider can do: return, raise ApiException, raise
\* anything else (a network error)
Outcomes == {"ok", "ApiException", "Exception"}

\* POST /contact, step 3: contact() calls send_email_via_brevo(), up to the
\* call of send_transac_email
send_email_via_brevo(r) ==
  /\ running = r
  /\ reqs[r].pc = "RateChecked"
  /\ IF ~HasApiKey
     THEN /\ reqs' = [reqs EXCEPT ![r] = Raised(reqs[r],
                "An error occurred: BREVO_API_KEY not found in environment variables")]
          /\ running' = 0
          /\ UNCHANGED sent
     ELSE /\ sent' = Append(sent, SendSmtpEmail(r, reqs[r].form))
          /\ reqs' = [reqs EXCEPT ![r].pc = "Dispatching"]
          /\ UNCHANGED running
  /\ UNCHANGED <<now, api_key, storage, expirations>>

\* POST /contact, step 4: send_transac_email returns or raises, and contact()
\* answers
send_transac_email(r) ==
  /\ running = r
  /\ reqs[r].pc = "Dispatching"
  /\ \E outcome \in Outcomes :
       /\ sent' = [sent EXCEPT ![Len(sent)].outcome = outcome]
       /\ reqs' = [reqs EXCEPT ![r] =
                     CASE outcome = "ok" -> Returned(reqs[r])
                       [] outcome = "ApiException" ->
                            Raised(reqs[r], "Failed to send email: ApiException")
                       [] OTHER -> Raised(reqs[r], "An error occurred: Exception")]
  /\ running' = 0
  /\ UNCHANGED <<now, api_key, storage, expirations>>

Next ==
  \/ Tick
  \/ PostContact
  \/ Get
  \/ \E r \in Ids : root(r)
  \/ \E r \in Ids : health_check(r)
  \/ \E r \in Ids : Validate(r)
  \/ \E r \in Ids : RateCheck(r)
  \/ \E r \in Ids : send_email_via_brevo(r)
  \/ \E r \in Ids : send_transac_email(r)

Spec == Init /\ [][Next]_vars

\* the requests of one client that sends any body, without the clock
NextForm ==
  \/ PostAnyBody
  \/ \E r \in Ids : Validate(r)
  \/ \E r \in Ids : RateCheck(r)
  \/ \E r \in Ids : send_email_via_brevo(r)
  \/ \E r \in Ids : send_transac_email(r)

SpecForm == Init /\ [][NextForm]_vars

\* ================================================================ claims
IsPost(r) == reqs[r].path = "/contact"

\* the request went past the rate limiter
Admitted(r) == reqs[r].admitted_at >= 0

\* the calls of the provider made for the request
CallsFor(r) == {i \in 1..Len(sent) : sent[i].request = r}

\* the address has an admitted request whose one-hour window has not elapsed
WindowOpen(a) ==
  \E q \in Ids : /\ reqs[q].addr = a
                 /\ Admitted(q)
                 /\ now < reqs[q].admitted_at + Hour

\* the address had admitted requests and one hour has elapsed since each
WindowElapsed(a) ==
  /\ \E q \in Ids : reqs[q].addr = a /\ Admitted(q)
  /\ ~WindowOpen(a)

\* no other request of the same address has been handled yet
FirstFrom(r) ==
  \A q \in Ids \ {r} : reqs[q].addr = reqs[r].addr => reqs[q].pc = "Received"

\* an admitted request of the address ended in a dispatch failure and its
\* window has not elapsed
FailedInWindow(a) ==
  \E q \in Ids : /\ reqs[q].addr = a
                 /\ Admitted(q)
                 /\ reqs[q].pc = "DispatchFailed"
                 /\ now < reqs[q].admitted_at + Hour

WellFormedEmails ==
  { <<"john", "@", "example.com">>, <<"John", "@", "EXAMPLE.com">> }

\* a field of the body violates its bound
Violates(body) ==
  \/ body.name < 1 \/ body.name > 100
  \/ body.email \notin WellFormedEmails
  \/ body.subject < 1 \/ body.subject > 200
  \/ body.message < 1 \/ body.message > 5000

\* the address as validation keeps it
Normalised(email) ==
  IF email = <<"John", "@", "EXAMPLE.com">>
  THEN <<"John", "@", "example.com">>
  ELSE email

\* C1: two admitted requests of one address are at least one hour apart, so
\* at most one request is admitted in the hour that starts at an admitted
\* request, however the requests interleave.
C1_OneAdmissionPerWindow ==
  \A r, q \in Ids :
    (/\ r # q
     /\ reqs[r].addr = reqs[q].addr
     /\ Admitted(r) /\ Admitted(q)
     /\ reqs[r].admitted_at <= reqs[q].admitted_at)
    => reqs[q].admitted_at >= reqs[r].admitted_at + Hour

\* C1: of two requests of one address handled in the same second, one was
\* admitted and the other answered 429
C1_Witness ==
  \E r, q \in Ids :
    /\ r # q /\ reqs[r].addr = reqs[q].addr
    /\ Admitted(r)
    /\ reqs[q].code = 429
    /\ reqs[q].handled_at = reqs[r].admitted_at

C4_InvalidRejectedWithoutDispatch ==
  \A r \in Ids : (IsPost(r) /\ Violates(reqs[r].body)) =>
    /\ reqs[r].pc \in {"Received", "Rejected"}
    /\ reqs[r].pc = "Rejected" => (reqs[r].code = 422 /\ reqs[r].errors # {})
    /\ CallsFor(r) = {}
    /\ ~Admitted(r)

\* C4: a submission whose only fault is a name of 101 characters got a 422
C4_Witness ==
  \E r \in Ids :
    /\ reqs[r].body.name = 101
    /\ ~Violates([reqs[r].body EXCEPT !.name = 100])
    /\ reqs[r].code = 422
    /\ reqs[r].errors = {"name"}

\* C5 as claimed: for a call of the provider that succeeded, the request has
\* exactly that one call, its reply-to is the e-mail as submitted, and the
\* response is 200 "success" with the submitted name, e-mail and subject.
C5_EchoSubmitted ==
  \A i \in 1..Len(sent) : sent[i].outcome = "ok" =>
    LET r == sent[i].request IN
      /\ Cardinality(CallsFor(r)) = 1
      /\ sent[i].reply_to = reqs[r].body.email
      /\ reqs[r].code = 200 /\ reqs[r].status = "success"
      /\ reqs[r].data = [name |-> reqs[r].body.name,
                         email |-> reqs[r].body.email,
                         subject |-> reqs[r].body.subject]

\* C5 as amended: the same, with the e-mail as validation normalises it
\* (domain in lower case) in the reply-to and in the response.
C5_EchoNormalised ==
  \A i \in 1..Len(sent) : sent[i].outcome = "ok" =>
    LET r == sent[i].request IN
      /\ Cardinality(CallsFor(r)) = 1
      /\ sent[i].reply_to = Normalised(reqs[r].body.email)
      /\ reqs[r].code = 200 /\ reqs[r].status = "success"
      /\ reqs[r].data = [name |-> reqs[r].body.name,
                         email |-> Normalised(reqs[r].body.email),
                         subject |-> reqs[r].body.subject]

\* C5: a submission with an upper-case domain was sent and answered 200
C5_Witness ==
  \E i \in 1..Len(sent) :
    /\ sent[i].outcome = "ok"
    /\ reqs[sent[i].request].body.email = <<"John", "@", "EXAMPLE.com">>
    /\ reqs[sent[i].request].code = 200

\* C6: for a call of the provider that failed, the request is answered 500
\* with a detail and not "success", it has exactly that one call, and a
\* request that has been answered never changes again.
C6_DispatchFailureSurfaced ==
  /\ [](\A i \in 1..Len(sent) : sent[i].outcome \in {"ApiException", "Exception"} =>
          LET r == sent[i].request IN
            /\ reqs[r].pc = "DispatchFailed"
            /\ reqs[r].code = 500 /\ reqs[r].detail # ""
            /\ reqs[r].status # "success"
            /\ Cardinality(CallsFor(r)) = 1)
  /\ [][\A r \in Ids : reqs[r].code # 0 =>
          (reqs'[r] = reqs[r] /\ CallsFor(r)' = CallsFor(r))]_vars

\* C6: a call of the provider raised ApiException and the request got a 500
C6_Witness ==
  \E i \in 1..Len(sent) :
    /\ sent[i].outcome = "ApiException"
    /\ reqs[sent[i].request].code = 500

C8_DispatchDoesNotBlock ==
  \A r, q \in Ids :
    (reqs[r].pc = "Dispatching" /\ reqs[q].pc = "Received")
    => ENABLED (Validate(q) \/ root(q) \/ health_check(q))

====
